---- MODULE Spec2Model ----
(***************************************************************************)
(* Byte-level model of the boot loader's XDR nvlist engine                 *)
(* (stand/libsa/zfs/nvlist.c).  A handle owns a byte buffer nv_data of     *)
(* nv_asize bytes of which the first nv_size are in use.  In memory the    *)
(* 32-bit fields are kept in host byte order; nvlist_export rewrites them  *)
(* in place to big-endian and nvlist_import rewrites them back.            *)
(*                                                                         *)
(* Offsets are 0-based as in the C code; a buffer is a sequence, so the    *)
(* byte at offset o is mem[o + 1].                                         *)
(***************************************************************************)
EXTENDS Integers, Sequences, FiniteSets, TLC

VARIABLES host, nvl, pre, op, rv, imp, lz

vars == <<host, nvl, pre, op, rv, imp, lz>>

(***************************************************************************)
(* Bounds of the model.                                                    *)
(***************************************************************************)
\* most pairs an add is allowed to leave in the list
MaxPairs == 2

\* pair names ("a", "ab") and string values ("x", "yyyyy") as bytes
Names == {<<97>>, <<97, 98>>}
StrValues == {<<120>>, <<121, 121, 121, 121, 121>>}
\* uint64 values, most significant byte first: 0x0000000200000003
U64Values == {<<0, 0, 0, 2, 0, 0, 0, 3>>}

(***************************************************************************)
(* Constants of the format.                                                *)
(***************************************************************************)
NV_ENCODE_XDR == 1
NV_VERSION == 0
NV_UNIQUE_NAME == 1
DATA_TYPE_UNKNOWN == 0
DATA_TYPE_BOOLEAN == 1
DATA_TYPE_BYTE == 2
DATA_TYPE_INT16 == 3
DATA_TYPE_UINT16 == 4
DATA_TYPE_INT32 == 5
DATA_TYPE_UINT32 == 6
DATA_TYPE_INT64 == 7
DATA_TYPE_UINT64 == 8
DATA_TYPE_STRING == 9
DATA_TYPE_UINT64_ARRAY == 16
DATA_TYPE_NVLIST == 19
DATA_TYPE_NVLIST_ARRAY == 20
DATA_TYPE_BOOLEAN_VALUE == 21
DATA_TYPE_INT8 == 22
DATA_TYPE_UINT8 == 23

\* sizeof(nvp_header_t): encoded_size, decoded_size
HdrSize == 8
\* sizeof(nvs_data_t): nvl_version, nvl_nvflag, nvl_pair
NvsSize == 16

OK == "OK"
ENOENT == "ENOENT"
ENOMEM == "ENOMEM"
EINVAL == "EINVAL"
ENOTSUP == "ENOTSUP"
EIO == "EIO"
\* the call ran into undefined behaviour (a read or write outside the
\* buffer, or a read of bytes nobody has written)
UB == "UB"

\* a byte of allocated memory whose value the model does not know: never
\* written (fresh from realloc), or left behind past nv_size by
\* nvlist_remove, where it is no longer part of the list.  Reading such a
\* byte is reported as UB.
Uninit == -1

\* a 32-bit value too large to be an offset into any buffer of the model
Huge == 65536

(***************************************************************************)
(* Memory and 32-bit words.                                                *)
(***************************************************************************)
NV_ALIGN4(x) == ((x + 3) \div 4) * 4
NV_ALIGN(x) == ((x + 7) \div 8) * 8

Reverse(s) == [i \in 1..Len(s) |-> s[Len(s) + 1 - i]]

Fill(n, b) == [i \in 1..n |-> b]

Zeros(n) == Fill(n, 0)

\* the n bytes at offset off can be read: inside the buffer and written
RdOK(mem, off, n) ==
    /\ off >= 0
    /\ off + n <= Len(mem)
    /\ \A i \in (off + 1)..(off + n) : mem[i] # Uninit

Rd(mem, off, n) == SubSeq(mem, off + 1, off + n)

\* the buffer after bytes is stored at offset off (the store is inside it)
Wr(mem, off, bytes) ==
    SubSeq(mem, 1, off) \o bytes \o SubSeq(mem, off + Len(bytes) + 1, Len(mem))

\* the value of a 32-bit word of memory read in host byte order (mem_uint);
\* values of 2^16 and more are all reported as Huge
Val(h, w) ==
    LET le == IF h = "LE" THEN w ELSE Reverse(w)
    IN IF le[3] # 0 \/ le[4] # 0 THEN Huge ELSE le[1] + 256 * le[2]

\* the value of a word read as big-endian whatever the host is (be32dec)
be32dec(w) == Val("BE", w)

\* the memory image of a small value stored in host byte order
W32(h, n) ==
    LET le == <<n % 256, (n \div 256) % 256, 0, 0>>
    IN IF h = "LE" THEN le ELSE Reverse(le)

\* htobe32 / be32dec on a word of memory, stored back as a host integer:
\* a byte swap on a little-endian host, nothing on a big-endian one
htobe32(h, w) == IF h = "LE" THEN Reverse(w) ELSE w

\* flag & NV_UNIQUE_NAME on the host value of a word: the low bit
LowBit(h, w) == (IF h = "LE" THEN w[1] ELSE w[4]) % 2

(***************************************************************************)
(* Handles.                                                                *)
(***************************************************************************)
NoHandle == [hdr |-> <<>>, asize |-> 0, size |-> 0, data |-> <<>>]

\* nvlist_create(flag)
nvlist_create(h, flag) ==
    [hdr |-> <<NV_ENCODE_XDR, IF h = "LE" THEN 1 ELSE 0, 0, 0>>,
     asize |-> NvsSize,
     size |-> NvsSize,
     data |-> W32(h, NV_VERSION) \o W32(h, flag) \o Zeros(HdrSize)]

(***************************************************************************)
(* Walking the pairs: nvlist_remove and nvlist_find.                       *)
(***************************************************************************)
\* memcmp(nvp_name->nv_data, name, nvp_name->nv_size) == 0, where name is a
\* C string: the stored name's nlen bytes at offset namep against the first
\* nlen bytes of name and its NUL.  "eq" or "ne"; "ub" when the comparison
\* runs off the end of either object before it finds a difference.
MemcmpName(mem, namep, name, nlen) ==
    LET nameC == name \o <<0>>
        m == IF nlen < Len(nameC) THEN nlen ELSE Len(nameC)
        bad == {i \in 1..m : ~RdOK(mem, namep + i - 1, 1)}
        diff == {i \in 1..m : i \notin bad /\ mem[namep + i] # nameC[i]}
    IN IF \E i \in diff : \A j \in bad : i < j THEN "ne"
       ELSE IF bad # {} THEN "ub"
       ELSE IF nlen <= Len(nameC) THEN "eq"
       ELSE "ub"

\* the pair whose header is at offset head: its fields as the walkers of
\* nvlist_remove and nvlist_find compute them
PairNameLen(h, mem, head) == Val(h, Rd(mem, head + HdrSize, 4))
PairDataOff(h, mem, head) ==
    NV_ALIGN4(head + HdrSize + 4 + PairNameLen(h, mem, head))

\* the test both walkers apply to the pair at head: "match", "skip", "ub"
PairMatch(h, mem, head, name, type) ==
    IF ~RdOK(mem, head + HdrSize, 4) THEN "ub"
    ELSE LET nlen == PairNameLen(h, mem, head)
             cmp == MemcmpName(mem, head + HdrSize + 4, name, nlen)
             datap == PairDataOff(h, mem, head)
         IN IF cmp = "ub" THEN "ub"
            ELSE IF cmp = "ne" THEN "skip"
            ELSE IF ~RdOK(mem, datap, 4) THEN "ub"
            ELSE IF Val(h, Rd(mem, datap, 4)) = type THEN "match"
            ELSE "skip"

RECURSIVE RemoveWalk(_, _, _, _, _)
RemoveWalk(h, n, name, type, head) ==
    IF ~RdOK(n.data, head, HdrSize) THEN [rv |-> UB, nvl |-> n]
    ELSE
    LET enc == Val(h, Rd(n.data, head, 4))
        dec == Val(h, Rd(n.data, head + 4, 4))
        m == PairMatch(h, n.data, head, name, type)
        tail == head + enc
        size == n.size - tail
    IN IF ~(enc # 0 /\ dec # 0) THEN [rv |-> ENOENT, nvl |-> n]
       ELSE IF m = "ub" THEN [rv |-> UB, nvl |-> n]
       ELSE IF m = "match"
       THEN IF size < 0 THEN [rv |-> UB, nvl |-> n]
            ELSE [rv |-> OK,
                  nvl |-> [n EXCEPT
                      !.size = n.size - enc,
                      !.data = SubSeq(n.data, 1, head)
                               \o SubSeq(n.data, tail + 1, n.size)
                               \o Fill(Len(n.data) - head - size, Uninit)]]
       ELSE RemoveWalk(h, n, name, type, head + enc)

\* nvlist_remove(nvl, name, type)
nvlist_remove(h, n, name, type) ==
    IF n = NoHandle THEN [rv |-> EINVAL, nvl |-> n]
    ELSE RemoveWalk(h, n, name, type, HdrSize)

NoValue == [rv |-> ENOENT, nelem |-> 0, size |-> 0, val |-> <<>>]

RECURSIVE FindWalk(_, _, _, _, _)
FindWalk(h, n, name, type, head) ==
    IF ~RdOK(n.data, head, HdrSize) THEN [NoValue EXCEPT !.rv = UB]
    ELSE
    LET enc == Val(h, Rd(n.data, head, 4))
        dec == Val(h, Rd(n.data, head + 4, 4))
        m == PairMatch(h, n.data, head, name, type)
        datap == PairDataOff(h, n.data, head)
        nelem == Val(h, Rd(n.data, datap + 4, 4))
        slen == Val(h, Rd(n.data, datap + 8, 4))
        u64 == Rd(n.data, datap + 8, 8)
    IN IF ~(enc # 0 /\ dec # 0) THEN NoValue
       ELSE IF m = "ub" THEN [NoValue EXCEPT !.rv = UB]
       ELSE IF m = "skip" THEN FindWalk(h, n, name, type, head + enc)
       ELSE IF ~RdOK(n.data, datap + 4, 4) THEN [NoValue EXCEPT !.rv = UB]
       ELSE IF type = DATA_TYPE_UINT64
       THEN IF ~RdOK(n.data, datap + 8, 8) THEN [NoValue EXCEPT !.rv = UB]
            ELSE [rv |-> OK, nelem |-> nelem, size |-> 0,
                  val |-> IF h = "LE" THEN Reverse(u64) ELSE u64]
       ELSE IF type = DATA_TYPE_STRING
       THEN IF ~RdOK(n.data, datap + 8, 4) THEN [NoValue EXCEPT !.rv = UB]
            ELSE IF ~RdOK(n.data, datap + 12, slen)
            THEN [NoValue EXCEPT !.rv = UB]
            ELSE [rv |-> OK, nelem |-> nelem, size |-> slen,
                  val |-> Rd(n.data, datap + 12, slen)]
       ELSE IF type \in {DATA_TYPE_NVLIST, DATA_TYPE_NVLIST_ARRAY}
       THEN [rv |-> OK, nelem |-> nelem, size |-> 0,
             val |-> <<datap + 8>>]
       ELSE [NoValue EXCEPT !.rv = EIO, !.nelem = nelem]

\* nvlist_find(nvl, name, type, &nelem, &value, &size); a string is returned
\* as its bytes, a uint64 most significant byte first, a nested list as the
\* offset its borrowed handle points at
nvlist_find(h, n, name, type) ==
    IF n = NoHandle THEN [NoValue EXCEPT !.rv = EINVAL]
    ELSE FindWalk(h, n, name, type, HdrSize)

(***************************************************************************)
(* nvlist_add_uint64 and nvlist_add_string.                                *)
(***************************************************************************)
\* head.encoded_size and head.decoded_size as the two functions compute them
AddUint64EncodedSize(namelen) ==
    4 + 4 + 4 + NV_ALIGN4(namelen) + 4 + 4 + 4 + NV_ALIGN(8 + 1)
AddUint64DecodedSize(namelen) == NV_ALIGN(4 * 4 + namelen + 1) + 8
AddStringEncodedSize(namelen, valuelen) ==
    4 + 4 + 4 + NV_ALIGN4(namelen) + 4 + 4 + 4 + NV_ALIGN(valuelen + 1)
AddStringDecodedSize(namelen, valuelen) ==
    NV_ALIGN(4 * 4 + namelen + 1) + NV_ALIGN(valuelen + 1)

\* the realloc test of both functions
NeedRealloc(n, enc) == n.asize - n.size < enc + 8

\* The body the two functions share, from the NV_UNIQUE_NAME test on.
\* payload is what is stored after the element count (the uint64 in host
\* order; the string's length, bytes and NUL); allocok is whether realloc
\* succeeds when it is called.
AddPair(h, n, name, type, enc, dec, payload, allocok) ==
    LET unique == LowBit(h, Rd(n.data, 4, 4)) = 1
        rm == IF unique THEN nvlist_remove(h, n, name, type)
              ELSE [rv |-> ENOENT, nvl |-> n]
        n1 == rm.nvl
        grow == NeedRealloc(n1, enc)
        asize2 == IF grow THEN n1.asize + enc ELSE n1.asize
        d0 == IF grow THEN n1.data \o Fill(enc, Uninit) ELSE n1.data
        idx == n1.size - HdrSize
        namelen == Len(name)
        d1 == Wr(d0, idx, Zeros(enc + 8))
        d2 == Wr(d1, idx, W32(h, enc) \o W32(h, dec))
        d3 == Wr(d2, idx + 8, W32(h, namelen))
        d4 == Wr(d3, idx + 12, name \o <<0>>)
        tp == idx + 12 + NV_ALIGN4(namelen)
        d5 == Wr(d4, tp, W32(h, type))
        d6 == Wr(d5, tp + 4, W32(h, 1))
        d7 == Wr(d6, tp + 8, payload)
    IN IF rm.rv = UB THEN [rv |-> UB, nvl |-> n]
       \* a borrowed handle (nv_asize = 0) points into its parent's buffer:
       \* realloc is handed a pointer no allocation returned
       ELSE IF grow /\ n1.asize = 0 THEN [rv |-> UB, nvl |-> n]
       ELSE IF grow /\ ~allocok THEN [rv |-> ENOMEM, nvl |-> n1]
       ELSE [rv |-> OK,
             nvl |-> [n1 EXCEPT !.asize = asize2,
                                !.size = n1.size + enc,
                                !.data = d7]]

\* nvlist_add_uint64(nvl, name, value)
nvlist_add_uint64(h, n, name, value, allocok) ==
    AddPair(h, n, name, DATA_TYPE_UINT64,
            AddUint64EncodedSize(Len(name)), AddUint64DecodedSize(Len(name)),
            IF h = "LE" THEN Reverse(value) ELSE value, allocok)

\* nvlist_add_string(nvl, name, value)
nvlist_add_string(h, n, name, value, allocok) ==
    AddPair(h, n, name, DATA_TYPE_STRING,
            AddStringEncodedSize(Len(name), Len(value)),
            AddStringDecodedSize(Len(name), Len(value)),
            W32(h, Len(value)) \o value \o <<0>>, allocok)

(***************************************************************************)
(* XDR translation in place: nvlist_xdr_nvlist and nvlist_xdr_nvp.         *)
(***************************************************************************)
XDR_OP_ENCODE == 1
XDR_OP_DECODE == 2

\* the value xdr_u_int hands back for the word w: when encoding, the host
\* value that was in memory (mem is then overwritten with htobe32 of it);
\* when decoding, be32dec of the bytes (which is then stored as a host value)
XdrVal(xop, h, w) == IF xop = XDR_OP_ENCODE THEN Val(h, w) ELSE be32dec(w)

\* the buffer after the word at off went through xdr_putuint / xdr_getuint
XdrWord(h, mem, off) == Wr(mem, off, htobe32(h, Rd(mem, off, 4)))

\* sign extension byte of a char or short whose top byte is b
SignFill(b, signed) == IF signed /\ b >= 128 THEN 255 ELSE 0

\* xdr_char on the word w at nv_data[0]
XdrChar(xop, h, w) ==
    IF xop = XDR_OP_ENCODE
    THEN <<SignFill(w[1], TRUE), SignFill(w[1], TRUE), SignFill(w[1], TRUE), w[1]>>
    ELSE IF h = "LE" THEN Reverse(w) ELSE <<w[4], w[2], w[3], w[4]>>

\* xdr_short / xdr_u_short on the word w at nv_data[0]
XdrShort(xop, h, w, signed) ==
    IF xop = XDR_OP_ENCODE
    THEN IF h = "LE"
         THEN <<SignFill(w[2], signed), SignFill(w[2], signed), w[2], w[1]>>
         ELSE <<SignFill(w[1], signed), SignFill(w[1], signed), w[1], w[2]>>
    ELSE IF h = "LE" THEN Reverse(w) ELSE <<w[3], w[4], w[3], w[4]>>

\* xdr_int64 / xdr_uint64 on the 8 bytes at nv_data[0]: the two halves are
\* taken from (or put back into) the host's 64-bit integer
XdrInt64(h, b) == IF h = "LE" THEN Reverse(b) ELSE b

\* nvlist_size(xdr, stream): the walk by encoded_size over the list body that
\* starts at offset base; xop says which getter reads the words
\* (XDR_OP_DECODE: _getuint; XDR_OP_ENCODE: mem_uint).  size is the number
\* of bytes up to and including the header that ends the walk.
RECURSIVE SizeWalk(_, _, _, _, _)
SizeWalk(xop, h, mem, base, pair) ==
    IF ~RdOK(mem, pair, HdrSize) THEN [ub |-> TRUE, size |-> 0]
    ELSE LET enc == XdrVal(xop, h, Rd(mem, pair, 4))
             dec == XdrVal(xop, h, Rd(mem, pair + 4, 4))
         IN IF enc # 0 /\ dec # 0
            THEN SizeWalk(xop, h, mem, base, pair + enc)
            ELSE [ub |-> FALSE, size |-> pair + HdrSize - base]

nvlist_size(xop, h, mem, base) == SizeWalk(xop, h, mem, base, base + 8)

\* F applied to the value of v, v being worked out once however often F
\* uses it
Bind(v, F(_)) == CHOOSE x \in {F(r) : r \in {v}} : TRUE

XdrFail(mem, idx, steps) == [ub |-> TRUE, mem |-> mem, idx |-> idx, steps |-> steps]

RECURSIVE XdrList(_, _, _, _, _)
RECURSIVE XdrLoop(_, _, _, _, _, _, _)
RECURSIVE XdrArray(_, _, _, _, _, _)

\* nvlist_xdr_nvp: the pair whose header was just translated; idx is the
\* cursor nv_idx, at the name.  Yields the buffer and the cursor after it.
nvlist_xdr_nvp(xop, h, mem, idx, steps) ==
    IF ~RdOK(mem, idx, 4) THEN XdrFail(mem, idx, steps)
    ELSE
    LET nlen == XdrVal(xop, h, Rd(mem, idx, 4))
        m1 == XdrWord(h, mem, idx)
        tp == idx + NV_ALIGN4(4 + nlen)
    IN IF ~RdOK(m1, tp, 8) THEN XdrFail(m1, tp, steps)
       ELSE
       LET type == XdrVal(xop, h, Rd(m1, tp, 4))
           nelem == XdrVal(xop, h, Rd(m1, tp + 4, 4))
           m2 == XdrWord(h, XdrWord(h, m1, tp), tp + 4)
           vp == tp + 8
           done(m, i) == [ub |-> FALSE, mem |-> m, idx |-> i, steps |-> steps]
       IN IF type \in {DATA_TYPE_NVLIST, DATA_TYPE_NVLIST_ARRAY}
          THEN XdrArray(xop, h, m2, vp, nelem, steps)
          ELSE IF type = DATA_TYPE_BOOLEAN THEN done(m2, vp)
          ELSE IF type \in {DATA_TYPE_BYTE, DATA_TYPE_INT8, DATA_TYPE_UINT8}
          THEN IF ~RdOK(m2, vp, 4) THEN XdrFail(m2, vp, steps)
               ELSE done(Wr(m2, vp, XdrChar(xop, h, Rd(m2, vp, 4))), vp + 4)
          ELSE IF type \in {DATA_TYPE_INT16, DATA_TYPE_UINT16}
          THEN IF ~RdOK(m2, vp, 4) THEN XdrFail(m2, vp, steps)
               ELSE done(Wr(m2, vp, XdrShort(xop, h, Rd(m2, vp, 4),
                                             type = DATA_TYPE_INT16)), vp + 4)
          ELSE IF type \in {DATA_TYPE_BOOLEAN_VALUE, DATA_TYPE_INT32,
                            DATA_TYPE_UINT32}
          THEN IF ~RdOK(m2, vp, 4) THEN XdrFail(m2, vp, steps)
               ELSE done(XdrWord(h, m2, vp), vp + 4)
          ELSE IF type \in {DATA_TYPE_INT64, DATA_TYPE_UINT64}
          THEN IF ~RdOK(m2, vp, 8) THEN XdrFail(m2, vp, steps)
               ELSE done(Wr(m2, vp, XdrInt64(h, Rd(m2, vp, 8))), vp + 8)
          ELSE IF type = DATA_TYPE_STRING
          THEN IF ~RdOK(m2, vp, 4) THEN XdrFail(m2, vp, steps)
               ELSE done(XdrWord(h, m2, vp),
                         vp + NV_ALIGN4(4 + XdrVal(xop, h, Rd(m2, vp, 4))))
          ELSE done(m2, vp)

\* the loop of nvlist_xdr_nvp over the nelem nested lists laid end to end
XdrArray(xop, h, mem, at, nelem, steps) ==
    IF nelem = 0 THEN [ub |-> FALSE, mem |-> mem, idx |-> at, steps |-> steps]
    ELSE IF nvlist_size(xop, h, mem, at).ub
    THEN XdrFail(mem, at, steps)
    ELSE Bind(XdrList(xop, h, mem, at, steps),
              LAMBDA r : IF r.ub THEN r
                         ELSE XdrArray(xop, h, r.mem, r.idx, nelem - 1, r.steps))

\* the while loop of nvlist_xdr_nvlist; idx is just past a translated header
\* whose two values were enc and dec, and which started at hdr
XdrLoop(xop, h, mem, idx, enc, dec, steps) ==
    IF ~(enc # 0 /\ dec # 0)
    THEN [ub |-> FALSE, mem |-> mem, idx |-> idx, steps |-> steps]
    ELSE Bind(nvlist_xdr_nvp(xop, h, mem, idx, steps),
              LAMBDA r :
                 IF r.ub THEN r
                 ELSE IF ~RdOK(r.mem, r.idx, HdrSize)
                 THEN XdrFail(r.mem, r.idx, r.steps)
                 ELSE XdrLoop(xop, h,
                          XdrWord(h, XdrWord(h, r.mem, r.idx), r.idx + 4),
                          r.idx + HdrSize,
                          XdrVal(xop, h, Rd(r.mem, r.idx, 4)),
                          XdrVal(xop, h, Rd(r.mem, r.idx + 4, 4)),
                          Append(r.steps, [hdr |-> idx - HdrSize, enc |-> enc,
                                           next |-> r.idx])))

\* nvlist_xdr_nvlist on the list body at offset base.  steps records, for
\* every pair the loop handled, where its header was, the encoded_size the
\* loop read there and where the cursor stood after nvlist_xdr_nvp.
XdrList(xop, h, mem, base, steps) ==
    IF ~RdOK(mem, base, NvsSize) THEN XdrFail(mem, base, steps)
    ELSE XdrLoop(xop, h,
             XdrWord(h, XdrWord(h, XdrWord(h, XdrWord(h, mem, base),
                 base + 4), base + 8), base + 12),
             base + NvsSize,
             XdrVal(xop, h, Rd(mem, base + 8, 4)),
             XdrVal(xop, h, Rd(mem, base + 12, 4)),
             steps)

nvlist_xdr_nvlist(xop, h, mem) == XdrList(xop, h, mem, 0, <<>>)

(***************************************************************************)
(* nvlist_export and nvlist_import.                                        *)
(***************************************************************************)
\* nvlist_export(nvl)
nvlist_export(h, n) ==
    IF n.hdr[1] # NV_ENCODE_XDR THEN [rv |-> ENOTSUP, nvl |-> n]
    ELSE LET r == nvlist_xdr_nvlist(XDR_OP_ENCODE, h, n.data)
         IN IF r.ub THEN [rv |-> UB, nvl |-> n]
            ELSE [rv |-> OK, nvl |-> [n EXCEPT !.data = r.mem]]

\* a head test that lets the second reserved byte through
HeadOK_NoReserved(stream) ==
    /\ stream[1] = NV_ENCODE_XDR
    /\ stream[2] \in {0, 1}
    /\ stream[3] = 0
    /\ be32dec(Rd(stream, 4, 4)) = NV_VERSION
    /\ be32dec(Rd(stream, 8, 4)) = NV_UNIQUE_NAME

\* the test of the nvlist head at the top of nvlist_import
HeadOK(stream) ==
    /\ stream[1] = NV_ENCODE_XDR
    /\ stream[2] \in {0, 1}
    /\ stream[3] = 0
    /\ stream[4] = 0
    /\ be32dec(Rd(stream, 4, 4)) = NV_VERSION
    /\ be32dec(Rd(stream, 8, 4)) = NV_UNIQUE_NAME

\* nvlist_import(stream), the stream being a buffer of Len(stream) bytes.
\* hok and dok say whether malloc of the handle and of the data succeed.
\*   status  "ok" (a handle is returned), "null", or "ub" (the call read or
\*           wrote outside a buffer; what it does then is not defined)
\*   oob     whether a byte outside the stream or the new buffer was touched
\*   mallocs how many of the call's malloc calls succeeded
\*   leaked  how many of those are neither freed nor handed to the caller
\*   size    what nvlist_size returned, 0 if the call did not get there
nvlist_import(h, stream, hok, dok) ==
    LET body == SubSeq(stream, 5, Len(stream))
        sz == nvlist_size(XDR_OP_DECODE, h, body, 0)
        data == SubSeq(body, 1, sz.size)
        x == nvlist_xdr_nvlist(XDR_OP_DECODE, h, data)
        none == [status |-> "null", nvl |-> NoHandle, oob |-> FALSE,
                 mallocs |-> 0, leaked |-> 0, size |-> 0]
    IN IF ~RdOK(stream, 0, 12) THEN [none EXCEPT !.status = "ub", !.oob = TRUE]
       ELSE IF ~HeadOK(stream) THEN none
       ELSE IF ~hok THEN none
       ELSE IF sz.ub
       THEN [none EXCEPT !.status = "ub", !.oob = TRUE, !.mallocs = 1,
                         !.leaked = 1]
       ELSE IF ~dok THEN [none EXCEPT !.mallocs = 1, !.size = sz.size]
       ELSE IF x.ub
       THEN [none EXCEPT !.status = "ub", !.oob = TRUE, !.mallocs = 2,
                         !.leaked = 2, !.size = sz.size]
       ELSE [status |-> "ok",
             nvl |-> [hdr |-> SubSeq(stream, 1, 4), asize |-> sz.size,
                      size |-> sz.size, data |-> x.mem],
             oob |-> FALSE, mallocs |-> 2, leaked |-> 0, size |-> sz.size]

(***************************************************************************)
(* The pairs of a list, read the way nvlist_print walks them.              *)
(***************************************************************************)
RECURSIVE PairWalk(_, _, _, _)
PairWalk(h, mem, head, acc) ==
    IF ~RdOK(mem, head, HdrSize) THEN [ok |-> FALSE, ps |-> acc, end |-> head]
    ELSE
    LET enc == Val(h, Rd(mem, head, 4))
        dec == Val(h, Rd(mem, head + 4, 4))
        nlen == PairNameLen(h, mem, head)
        datap == PairDataOff(h, mem, head)
        type == Val(h, Rd(mem, datap, 4))
        slen == Val(h, Rd(mem, datap + 8, 4))
        u64 == Rd(mem, datap + 8, 8)
        value == IF type = DATA_TYPE_UINT64 /\ RdOK(mem, datap + 8, 8)
                 THEN IF h = "LE" THEN Reverse(u64) ELSE u64
                 ELSE IF type = DATA_TYPE_STRING /\ RdOK(mem, datap + 8, 4)
                         /\ RdOK(mem, datap + 12, slen)
                 THEN Rd(mem, datap + 12, slen)
                 ELSE <<>>
    IN IF ~(enc # 0 /\ dec # 0) THEN [ok |-> TRUE, ps |-> acc, end |-> head]
       ELSE IF ~RdOK(mem, head + HdrSize, 4)
               \/ ~RdOK(mem, head + HdrSize + 4, nlen)
               \/ ~RdOK(mem, datap, 8)
       THEN [ok |-> FALSE, ps |-> acc, end |-> head]
       ELSE PairWalk(h, mem, head + enc,
                Append(acc, [off |-> head, enc |-> enc, dec |-> dec,
                             name |-> Rd(mem, head + HdrSize + 4, nlen),
                             type |-> type,
                             nelem |-> Val(h, Rd(mem, datap + 4, 4)),
                             value |-> value]))

\* the walk over the used region of a handle
Walk(h, n) == PairWalk(h, SubSeq(n.data, 1, n.size), HdrSize, <<>>)

\* name, type, element count and value of every pair, in order
Content(ps) ==
    [i \in 1..Len(ps) |->
        [name |-> ps[i].name, type |-> ps[i].type,
         nelem |-> ps[i].nelem, value |-> ps[i].value]]

(***************************************************************************)
(* The state machine: one handle and the calls made on it.                 *)
(*   host  byte order of the machine, "LE" or "BE"                         *)
(*   nvl   the handle                                                      *)
(*   pre   the handle as it was before the last call                       *)
(*   op    the last call and its arguments                                 *)
(*   rv    what the last call returned                                     *)
(*   imp   the outcome of the last nvlist_import                           *)
(*   lz    the call of lzbe_set_pair under way, if any                     *)
(***************************************************************************)
NoImport == [status |-> "none", nvl |-> NoHandle, oob |-> FALSE,
             mallocs |-> 0, leaked |-> 0, size |-> 0,
             kind |-> "none", stream |-> <<>>, hok |-> FALSE, dok |-> FALSE]

\* what a call that ran into undefined behaviour may do: stop the program,
\* or come back with NULL or with a handle over bytes nobody can predict
UBOutcomes == {"crash", "null", "garbage"}

\* the stream a caller hands to nvlist_import: the 4-byte header followed
\* by the used bytes of the handle
StreamOf(n) == n.hdr \o SubSeq(n.data, 1, n.size)

\* offset in a stream of the type tag of its first pair
FirstTypeOff(st) == 4 + NvsSize + NV_ALIGN4(4 + be32dec(Rd(st, 4 + NvsSize, 4)))

\* The streams nvlist_import is tried on: the exported image as it is, and
\* the image damaged in one place.
StreamKinds == {"wire", "encoding", "endian", "reserved1", "reserved2",
                "version", "flags", "cut", "cut4", "halfterm", "type"}
Mangle(kind, st) ==
    CASE kind = "wire" -> st
      [] kind = "encoding" -> Wr(st, 0, <<0>>)
      [] kind = "endian" -> Wr(st, 1, <<2>>)
      [] kind = "reserved1" -> Wr(st, 2, <<1>>)
      [] kind = "reserved2" -> Wr(st, 3, <<1>>)
      [] kind = "version" -> Wr(st, 4, <<0, 0, 0, 1>>)
      [] kind = "flags" -> Wr(st, 8, <<0, 0, 0, 0>>)
      [] kind = "cut" -> SubSeq(st, 1, Len(st) - HdrSize)
      [] kind = "cut4" -> SubSeq(st, 1, Len(st) - 4)
      [] kind = "halfterm" -> Wr(st, Len(st) - HdrSize, <<0, 0, 0, 4>>)
      [] kind = "type" ->
            IF Len(st) > 4 + NvsSize /\ FirstTypeOff(st) + 4 <= Len(st)
            THEN Wr(st, FirstTypeOff(st), <<0, 0, 0, 10>>)
            ELSE st

Call(name, k, t, v) == [name |-> name, k |-> k, t |-> t, v |-> v]

\* the largest encoded_size an add of this model produces
MaxEnc == AddUint64EncodedSize(2)
Fits(n) == n.size <= NvsSize + MaxPairs * MaxEnc

\* no call of lzbe_set_pair is under way
NoCall == [pc |-> "none"]

Init ==
    /\ host \in {"LE", "BE"}
    /\ nvl = nvlist_create(host, NV_UNIQUE_NAME)
    /\ pre = nvl
    /\ op = Call("create", <<>>, 0, <<>>)
    /\ rv = OK
    /\ imp = NoImport
    /\ lz = NoCall

AddUint64(name, value, allocok) ==
    \E r \in {nvlist_add_uint64(host, nvl, name, value, allocok)} :
       /\ rv # UB
       /\ Fits(r.nvl)
       /\ nvl' = r.nvl
       /\ pre' = nvl
       /\ op' = Call("add_uint64", name, DATA_TYPE_UINT64, value)
       /\ rv' = r.rv
       /\ imp' = NoImport
       /\ UNCHANGED <<host, lz>>

AddString(name, value, allocok) ==
    \E r \in {nvlist_add_string(host, nvl, name, value, allocok)} :
       /\ rv # UB
       /\ Fits(r.nvl)
       /\ nvl' = r.nvl
       /\ pre' = nvl
       /\ op' = Call("add_string", name, DATA_TYPE_STRING, value)
       /\ rv' = r.rv
       /\ imp' = NoImport
       /\ UNCHANGED <<host, lz>>

Remove(name, type) ==
    \E r \in {nvlist_remove(host, nvl, name, type)} :
       /\ rv # UB
       /\ nvl' = r.nvl
       /\ pre' = nvl
       /\ op' = Call("remove", name, type, <<>>)
       /\ rv' = r.rv
       /\ imp' = NoImport
       /\ UNCHANGED <<host, lz>>

\* nvlist_export on the handle; a second export in a row is recorded as
\* "export2" and is the last one
Export ==
    \E r \in {nvlist_export(host, nvl)} :
       /\ rv # UB
       /\ op.name # "export2"
       /\ nvl' = r.nvl
       /\ pre' = nvl
       /\ op' = Call(IF op.name = "export" THEN "export2" ELSE "export",
                     <<>>, 0, <<>>)
       /\ rv' = r.rv
       /\ imp' = NoImport
       /\ UNCHANGED <<host, lz>>

\* nvlist_import on a stream made from the exported handle.  The outcome
\* does not depend on an earlier import, so one import per exported handle
\* reaches every outcome.
Import(kind, hok, dok) ==
    \E st \in {Mangle(kind, StreamOf(nvl))} :
    \E r \in {nvlist_import(host, st, hok, dok)} :
       /\ op.name = "export"
       /\ rv = OK
       /\ imp = NoImport
       /\ \E o \in IF r.status = "ub" THEN UBOutcomes ELSE {r.status} :
             imp' = [status |-> o, nvl |-> r.nvl, oob |-> r.oob,
                     mallocs |-> r.mallocs, leaked |-> r.leaked,
                     size |-> r.size, kind |-> kind, stream |-> st,
                     hok |-> hok, dok |-> dok]
       /\ UNCHANGED <<host, nvl, pre, op, rv, lz>>

\* the caller drops the exported handle (nvlist_destroy) and goes on with
\* the one nvlist_import returned
Adopt ==
    /\ imp.status = "ok"
    /\ nvl' = imp.nvl
    /\ pre' = nvl
    /\ op' = Call("import", <<>>, 0, <<>>)
    /\ rv' = OK
    /\ imp' = NoImport
    /\ UNCHANGED <<host, lz>>

\* the handle has not been exported: its words are in host order
Native == op.name \notin {"export", "export2"}

Next ==
    \/ \E name \in Names, value \in U64Values, allocok \in BOOLEAN :
           AddUint64(name, value, allocok)
    \/ \E name \in Names, value \in StrValues, allocok \in BOOLEAN :
           AddString(name, value, allocok)
    \/ \E name \in Names, type \in {DATA_TYPE_UINT64, DATA_TYPE_STRING} :
           Remove(name, type)

Spec == Init /\ [][Next]_vars

\* the stream and the two malloc results of an import: every stream with
\* memory to spare, the undamaged one also with either malloc failing
ImportInputs ==
    {<<kind, TRUE, TRUE>> : kind \in StreamKinds}
        \cup {<<"wire", TRUE, FALSE>>, <<"wire", FALSE, FALSE>>}

\* Export and import: lists are built by adds whose allocations succeed,
\* then exported, and the image is imported back, whole or damaged.
NextIO ==
    \/ \E name \in Names, value \in U64Values :
           Native /\ AddUint64(name, value, TRUE)
    \/ \E name \in Names, value \in StrValues :
           Native /\ AddString(name, value, TRUE)
    \/ Export
    \/ \E in \in ImportInputs : Import(in[1], in[2], in[3])
    \/ Adopt

SpecIO == Init /\ [][NextIO]_vars

\* Calls with arguments a caller should not pass: the empty name, and a
\* handle borrowed from nvlist_find for a nested list.
ArgNames == {<<>>, <<97>>}

\* a stream from another writer: one pair "a" of type DATA_TYPE_NVLIST
\* holding an empty list
NestedStream ==
    <<NV_ENCODE_XDR, 1, 0, 0>> \o W32("BE", NV_VERSION)
        \o W32("BE", NV_UNIQUE_NAME)
        \o W32("BE", 40) \o W32("BE", 48)
        \o W32("BE", 1) \o <<97, 0, 0, 0>>
        \o W32("BE", DATA_TYPE_NVLIST) \o W32("BE", 1)
        \o W32("BE", NV_VERSION) \o W32("BE", NV_UNIQUE_NAME) \o Zeros(HdrSize)
        \o Zeros(HdrSize)

\* nvlist_import of that stream, both allocations succeeding
ImportNested ==
    \E r \in {nvlist_import(host, NestedStream, TRUE, TRUE)} :
       /\ op.name = "create"
       /\ r.status = "ok"
       /\ nvl' = r.nvl
       /\ pre' = nvl
       /\ op' = Call("import_nested", <<>>, 0, <<>>)
       /\ rv' = OK
       /\ UNCHANGED <<host, imp, lz>>

\* the handle nvlist_find makes for a nested list: nv_asize = nv_size = 0
\* and nv_data pointing at the nested list inside the parent's buffer
Borrowed(n, off) ==
    [hdr |-> n.hdr, asize |-> 0, size |-> 0,
     data |-> SubSeq(n.data, off + 1, Len(n.data))]

\* nvlist_find(nvl, "a", DATA_TYPE_NVLIST, ...); the caller goes on with the
\* handle it returned
Borrow ==
    \E f \in {nvlist_find(host, nvl, <<97>>, DATA_TYPE_NVLIST)} :
       /\ op.name = "import_nested"
       /\ f.rv = OK
       /\ nvl' = Borrowed(nvl, f.val[1])
       /\ pre' = nvl
       /\ op' = Call("find", <<97>>, DATA_TYPE_NVLIST, <<>>)
       /\ rv' = OK
       /\ UNCHANGED <<host, imp, lz>>

\* a stream from another writer: pair "a", a DATA_TYPE_UINT64_ARRAY of one
\* element 0, then pair "b", the uint64 0x0000000200000003; every
\* encoded_size is the size the pair has in the stream
ArrayStream ==
    <<NV_ENCODE_XDR, 1, 0, 0>> \o W32("BE", NV_VERSION)
        \o W32("BE", NV_UNIQUE_NAME)
        \o W32("BE", 32) \o W32("BE", 32)
        \o W32("BE", 1) \o <<97, 0, 0, 0>>
        \o W32("BE", DATA_TYPE_UINT64_ARRAY) \o W32("BE", 1) \o Zeros(8)
        \o W32("BE", 32) \o W32("BE", 32)
        \o W32("BE", 1) \o <<98, 0, 0, 0>>
        \o W32("BE", DATA_TYPE_UINT64) \o W32("BE", 1)
        \o <<0, 0, 0, 2, 0, 0, 0, 3>>
        \o Zeros(HdrSize)

\* nvlist_import of that stream, both allocations succeeding; the caller
\* goes on with the handle it returned
ImportArray ==
    \E r \in {nvlist_import(host, ArrayStream, TRUE, TRUE)} :
       /\ op.name = "create"
       /\ r.status = "ok"
       /\ nvl' = r.nvl
       /\ pre' = nvl
       /\ op' = Call("import", <<>>, 0, <<>>)
       /\ rv' = OK
       /\ UNCHANGED <<host, imp, lz>>

NextArg ==
    \/ \E name \in ArgNames, value \in U64Values, allocok \in BOOLEAN :
           AddUint64(name, value, allocok)
    \/ \E name \in ArgNames, value \in StrValues, allocok \in BOOLEAN :
           AddString(name, value, allocok)
    \/ \E name \in ArgNames, type \in {DATA_TYPE_UINT64, DATA_TYPE_STRING} :
           Remove(name, type)
    \/ ImportNested
    \/ ImportArray
    \/ Borrow

SpecArg == Init /\ [][NextArg]_vars

(***************************************************************************)
(* lzbe_set_pair, statement by statement, in its two copies:               *)
(*   "lib"   src/lib/libzfsbootenv/lzbe_pair.c                             *)
(*   "cddl"  src/cddl/contrib/opensolaris/lib/libzfsbootenv/common/        *)
(*           lzbe_pair.c                                                   *)
(* lz holds the arguments, the position in the function, the locals hdl,   *)
(* zphdl, nv and rv, and a record of the library calls made so far.        *)
(***************************************************************************)
Copies == {"lib", "cddl"}
NullPtr == "<NULL>"
Pools == {NullPtr, "", "rpool"}
PairTypes == {NullPtr, "DATA_TYPE_STRING", "DATA_TYPE_UINT64"}
PairValues == {"", "v"}

\* what zpool_get_bootenv and zpool_set_bootenv may return
GetResults == {0, 2}
SetResults == {0, 5}

\* int rv = -1, and the locals before any call
LzStart(copy, pool, type, value, haskey) ==
    [copy |-> copy, pool |-> pool, type |-> type, value |-> value,
     pc |-> "args", rv |-> 0 - 1, hdl |-> "none", zphdl |-> "none",
     nv |-> "uninit", haskey |-> haskey, got |-> "none", getrv |-> 0,
     setarg |-> "none", freearg |-> "none", writes |-> 0,
     closes |-> 0, finis |-> 0]

InitPair ==
    /\ host = "LE"
    /\ nvl = NoHandle
    /\ pre = NoHandle
    /\ op = Call("lzbe_set_pair", <<>>, 0, <<>>)
    /\ rv = OK
    /\ imp = NoImport
    /\ \E copy \in Copies, pool \in Pools, type \in PairTypes,
          value \in PairValues, haskey \in BOOLEAN :
          lz = LzStart(copy, pool, type, value, haskey)

\* if (pool == NULL || *pool == '\0' || type == NULL) return (rv);
CheckArgs ==
    /\ lz.pc = "args"
    /\ lz' = [lz EXCEPT !.pc = IF lz.pool \in {NullPtr, ""}
                                   \/ lz.type = NullPtr
                                THEN "done" ELSE "init"]
    /\ UNCHANGED <<host, nvl, pre, op, rv, imp>>

\* hdl = libzfs_init()
LibzfsInit(ok) ==
    /\ lz.pc = "init"
    /\ lz' = IF ok THEN [lz EXCEPT !.hdl = "open", !.pc = "open"]
             ELSE [lz EXCEPT !.pc = "done"]
    /\ UNCHANGED <<host, nvl, pre, op, rv, imp>>

\* zphdl = zpool_open(hdl, pool); on NULL, libzfs_fini(hdl) and return
ZpoolOpen(ok) ==
    /\ lz.pc = "open"
    /\ lz' = IF ok THEN [lz EXCEPT !.zphdl = "open", !.pc = "get"]
             ELSE [lz EXCEPT !.hdl = "closed", !.finis = @ + 1,
                             !.pc = "done"]
    /\ UNCHANGED <<host, nvl, pre, op, rv, imp>>

\* where each copy goes after zpool_get_bootenv returned r
AfterGet(copy, r) ==
    IF r = 0 THEN "edit"
    ELSE IF copy = "lib" THEN "set"
    ELSE "close"

\* rv = zpool_get_bootenv(zphdl, &nv); nv is set only on success
GetBootenv(r) ==
    /\ lz.pc = "get"
    /\ lz' = [lz EXCEPT !.rv = r, !.getrv = r,
                        !.got = IF r = 0 THEN "ok" ELSE "failed",
                        !.nv = IF r = 0 THEN "valid" ELSE "uninit",
                        !.pc = AfterGet(lz.copy, r)]
    /\ UNCHANGED <<host, nvl, pre, op, rv, imp>>

\* the body of if (rv == 0): remove the key or add the string
EditPair ==
    /\ lz.pc = "edit"
    /\ lz' = [lz EXCEPT
                !.haskey = IF lz.type # "DATA_TYPE_STRING" THEN lz.haskey
                           ELSE IF lz.value = "" /\ lz.haskey THEN FALSE
                           ELSE TRUE,
                !.pc = "set"]
    /\ UNCHANGED <<host, nvl, pre, op, rv, imp>>

\* rv = zpool_set_bootenv(zphdl, nv).  With nv never assigned the call
\* works on an indeterminate pointer: it may or may not write the label.
SetBootenv(r, wrote) ==
    /\ lz.pc = "set"
    /\ lz.nv = "valid" => wrote = (r = 0)
    /\ lz' = [lz EXCEPT !.rv = r, !.setarg = lz.nv,
                        !.writes = IF wrote THEN @ + 1 ELSE @,
                        !.pc = "free"]
    /\ UNCHANGED <<host, nvl, pre, op, rv, imp>>

\* nvlist_free(nv)
NvlistFree ==
    /\ lz.pc = "free"
    /\ lz' = [lz EXCEPT !.freearg = lz.nv, !.nv = "freed", !.pc = "close"]
    /\ UNCHANGED <<host, nvl, pre, op, rv, imp>>

\* zpool_close(zphdl)
ZpoolClose ==
    /\ lz.pc = "close"
    /\ lz' = [lz EXCEPT !.zphdl = "closed", !.closes = @ + 1, !.pc = "fini"]
    /\ UNCHANGED <<host, nvl, pre, op, rv, imp>>

\* libzfs_fini(hdl); return (rv)
LibzfsFini ==
    /\ lz.pc = "fini"
    /\ lz' = [lz EXCEPT !.hdl = "closed", !.finis = @ + 1, !.pc = "done"]
    /\ UNCHANGED <<host, nvl, pre, op, rv, imp>>

NextPair ==
    \/ CheckArgs
    \/ \E ok \in BOOLEAN : LibzfsInit(ok)
    \/ \E ok \in BOOLEAN : ZpoolOpen(ok)
    \/ \E r \in GetResults : GetBootenv(r)
    \/ EditPair
    \/ \E r \in SetResults, wrote \in BOOLEAN : SetBootenv(r, wrote)
    \/ NvlistFree
    \/ ZpoolClose
    \/ LibzfsFini

SpecPair == InitPair /\ [][NextPair]_vars

(***************************************************************************)
(* Properties.                                                             *)
(***************************************************************************)
Adds == {"add_uint64", "add_string"}
Types == {DATA_TYPE_UINT64, DATA_TYPE_STRING}
Unique(n) == LowBit(host, Rd(n.data, 4, 4)) = 1
Used(n) == SubSeq(n.data, 1, n.size)
Min(S) == CHOOSE x \in S : \A y \in S : x <= y
Without(seq, i) == SubSeq(seq, 1, i - 1) \o SubSeq(seq, i + 1, Len(seq))

\* C1 (round trip): when a list is exported and the 4-byte header followed
\* by the exported bytes is imported with memory to spare, the import
\* returns a handle whose pairs equal the pairs the list had before the
\* export: same number, order, names, types and values.
C1_RoundTrip ==
    (imp.kind = "wire" /\ imp.hok /\ imp.dok /\ op.name = "export") =>
        /\ imp.status = "ok"
        /\ Walk(host, imp.nvl).ok
        /\ Walk(host, pre).ok
        /\ Content(Walk(host, imp.nvl).ps) = Content(Walk(host, pre).ps)

\* C2 (uniqueness on re-add): on a NV_UNIQUE_NAME list, after
\* nvlist_add_string(k, v1) directly followed by nvlist_add_string(k, v2),
\* both successful, the list holds exactly one STRING pair named k, its
\* value is v2, and nvlist_find(k, STRING) returns v2 with length strlen(v2).
C2_ReAdd ==
    [][(/\ op.name = "add_string" /\ rv = OK
        /\ op'.name = "add_string" /\ rv' = OK
        /\ op'.k = op.k
        /\ Unique(nvl))
       => LET w == Walk(host, nvl')
              same == {i \in 1..Len(w.ps) :
                          w.ps[i].name = op'.k /\ w.ps[i].type = DATA_TYPE_STRING}
              f == nvlist_find(host, nvl', op'.k, DATA_TYPE_STRING)
          IN /\ w.ok
             /\ Cardinality(same) = 1
             /\ \A i \in same : w.ps[i].value = op'.v
             /\ f.rv = OK /\ f.val = op'.v /\ f.size = Len(op'.v)]_vars

\* C3 (terminator invariant): in every state reached from nvlist_create or
\* a successful nvlist_import by adds and removes, the last 8 bytes of the
\* used region are zero and the walk over the pairs by encoded_size ends
\* exactly there.
C3_Terminator ==
    (Native /\ rv # UB) =>
        /\ Rd(nvl.data, nvl.size - HdrSize, HdrSize) = Zeros(HdrSize)
        /\ Walk(host, nvl).ok
        /\ Walk(host, nvl).end = nvl.size - HdrSize

\* C4 (atomic on allocation failure): when an add returns ENOMEM the handle
\* is exactly as it was before the call: nv_size, nv_asize and every byte.
C4_AtomicOnNoMem ==
    (op.name \in Adds /\ rv = ENOMEM) => nvl = pre

\* C5 (remove idempotence): when nvlist_remove(k, t) is called twice in a
\* row, the second call returns ENOENT and leaves nv_size and the bytes of
\* the used region as they were.
C5_RemoveTwice ==
    [][(/\ op.name = "remove" /\ rv # UB
        /\ op'.name = "remove"
        /\ op'.k = op.k /\ op'.t = op.t)
       => (rv' = ENOENT /\ nvl'.size = nvl.size /\ Used(nvl') = Used(nvl))]_vars

\* C6 (exact-name lookup): nvlist_find and nvlist_remove select a pair only
\* if its stored name equals the name asked for, byte for byte and in
\* length, and its type is the type asked for; they select the first such
\* pair, and return ENOENT when there is none.
C6_ExactLookup ==
    (Native /\ rv # UB) =>
        \A name \in Names, type \in Types :
            LET w == Walk(host, nvl)
                exact == {i \in 1..Len(w.ps) :
                             w.ps[i].name = name /\ w.ps[i].type = type}
                f == nvlist_find(host, nvl, name, type)
                r == nvlist_remove(host, nvl, name, type)
            IN /\ w.ok
               /\ exact = {} => (f.rv = ENOENT /\ r.rv = ENOENT)
               /\ exact # {} =>
                     /\ f.rv = OK
                     /\ f.val = w.ps[Min(exact)].value
                     /\ r.rv = OK
                     /\ Content(Walk(host, r.nvl).ps)
                            = Content(Without(w.ps, Min(exact)))

\* the sizes the format prescribes: align4 rounds up to a multiple of 4
Align4(x) == x + ((4 - (x % 4)) % 4)
WireSize(namelen, v) == 4 + 4 + 4 + Align4(namelen) + 4 + 4 + Align4(v)

\* C7 (size formula): the encoded_size nvlist_add_uint64 stores for a name
\* of length N is 4 + 4 + 4 + align4(N) + 4 + 4 + align4(8); the one
\* nvlist_add_string stores for a value of length L is
\* 4 + 4 + 4 + align4(N) + 4 + 4 + align4(4 + L).
C7_SizeFormula ==
    (op.name \in Adds /\ rv = OK) =>
        LET w == Walk(host, nvl)
            last == w.ps[Len(w.ps)]
        IN /\ w.ok /\ Len(w.ps) > 0
           /\ last.name = op.k /\ last.type = op.t
           /\ last.enc = IF op.name = "add_uint64"
                         THEN WireSize(Len(op.k), 8)
                         ELSE WireSize(Len(op.k), 4 + Len(op.v))

\* the head of a stream as the format prescribes it
WireHead(st) ==
    /\ st[1] = 1 /\ st[2] \in {0, 1} /\ st[3] = 0 /\ st[4] = 0
    /\ SubSeq(st, 5, 8) = <<0, 0, 0, 0>>
    /\ SubSeq(st, 9, 12) = <<0, 0, 0, 1>>

\* C8 (import acceptance): nvlist_import returns a handle only for a stream
\* whose head is {NV_ENCODE_XDR, 0 or 1, 0, 0}, big-endian NV_VERSION,
\* big-endian NV_UNIQUE_NAME; for any other stream it returns NULL and no
\* malloc has been made; a handle it returns has nv_asize = nv_size = the
\* length nvlist_size computed and carries the stream's first four bytes.
C8_ImportAcceptance ==
    (imp.status # "none") =>
        /\ imp.status \in {"ok", "garbage"} => WireHead(imp.stream)
        /\ ~WireHead(imp.stream) => (imp.status = "null" /\ imp.mallocs = 0)
        /\ imp.status = "ok" =>
              /\ imp.nvl.asize = imp.nvl.size
              /\ imp.nvl.size = imp.size
              /\ imp.size = nvlist_size(XDR_OP_DECODE, host,
                                SubSeq(imp.stream, 5, Len(imp.stream)), 0).size
              /\ Len(imp.nvl.data) = imp.nvl.asize
              /\ imp.nvl.hdr = SubSeq(imp.stream, 1, 4)

\* a handle was returned for an undamaged stream that carries a pair
C8_Witness ==
    imp.status = "ok" /\ imp.kind = "wire" /\ imp.nvl.size > NvsSize

\* C9 (truncation safety): an import of a stream with a good head but cut
\* short before the end of its terminator reads no byte past the end of the
\* buffer, returns NULL and leaves no allocation behind.
C9_TruncationSafe ==
    (imp.kind \in {"cut", "cut4"}) =>
        (~imp.oob /\ imp.status = "null" /\ imp.leaked = 0)

\* the type tags nvlist_xdr_nvp has a case for
KnownTags ==
    {DATA_TYPE_BOOLEAN, DATA_TYPE_BYTE, DATA_TYPE_INT8, DATA_TYPE_UINT8,
     DATA_TYPE_INT16, DATA_TYPE_UINT16, DATA_TYPE_BOOLEAN_VALUE,
     DATA_TYPE_INT32, DATA_TYPE_UINT32, DATA_TYPE_INT64, DATA_TYPE_UINT64,
     DATA_TYPE_STRING, DATA_TYPE_NVLIST, DATA_TYPE_NVLIST_ARRAY}

\* the type tag, as sent, of the pair whose header is at offset hdr of body
TagAt(body, hdr) ==
    be32dec(Rd(body, hdr + HdrSize
                     + NV_ALIGN4(4 + be32dec(Rd(body, hdr + HdrSize, 4))), 4))

\* the decode pass over the bytes an import copied, and whether some pair it
\* handled was malformed: its bytes consumed differ from its encoded_size,
\* or its type tag is unknown
Decoded == nvlist_xdr_nvlist(XDR_OP_DECODE, host,
               SubSeq(imp.stream, 5, 4 + imp.size))
Malformed ==
    \E i \in 1..Len(Decoded.steps) :
        \/ Decoded.steps[i].next - Decoded.steps[i].hdr # Decoded.steps[i].enc
        \/ TagAt(SubSeq(imp.stream, 5, 4 + imp.size), Decoded.steps[i].hdr)
               \notin KnownTags

\* C10 (decoder size check): when, during an import, the bytes the decoder
\* consumed for a pair differ from the pair's encoded_size, or the pair's
\* type tag is unknown, nvlist_import returns NULL and frees the buffer and
\* the handle.
C10_DecoderChecks ==
    (/\ imp.status # "none" /\ imp.hok /\ imp.dok
     /\ imp.size > 0 /\ ~imp.oob
     /\ Malformed)
    => (imp.status = "null" /\ imp.leaked = 0)

\* C11 (unique names): in every state reached from
\* nvlist_create(NV_UNIQUE_NAME) by adds and removes, no two pairs of the
\* list have the same name, whatever their types.
C11_UniqueNames ==
    (op.name \in Adds \cup {"create", "remove"} /\ rv # UB) =>
        LET w == Walk(host, nvl)
        IN /\ w.ok
           /\ \A i, j \in 1..Len(w.ps) :
                 w.ps[i].name = w.ps[j].name => i = j

\* C12 (invalid-argument rejection): nvlist_add_uint64, nvlist_add_string
\* and nvlist_remove called with an empty name, or on a borrowed handle
\* (nv_asize = 0), return EINVAL and leave the handle and its bytes as
\* they were.
C12_InvalidArg ==
    (/\ op.name \in Adds \cup {"remove"}
     /\ (op.k = <<>> \/ pre.asize = 0))
    => (rv = EINVAL /\ nvl = pre)

\* C13 (export idempotence): a second nvlist_export on a handle that was
\* already exported returns 0 and leaves every byte of the buffer as the
\* first export left it, on either host.
C13_ExportIdempotent ==
    op.name = "export2" => (rv = OK /\ nvl.data = pre.data)

\* the encode pass nvlist_export made over the handle as it was before
Encoded == nvlist_xdr_nvlist(XDR_OP_ENCODE, host, pre.data)

\* C14 (export covers every pair): when a handle in host order is exported,
\* the cursor after each pair stands at that pair's header start plus its
\* encoded_size, the loop handles every pair of the list, and every pair's
\* header, name length, type and element count are big-endian afterwards.
C14_ExportCoversAll ==
    (op.name = "export" /\ rv = OK) =>
        LET ps == Walk(host, pre).ps
        IN /\ Len(Encoded.steps) = Len(ps)
           /\ \A i \in 1..Len(Encoded.steps) :
                  Encoded.steps[i].next = Encoded.steps[i].hdr
                                              + Encoded.steps[i].enc
           /\ \A i \in 1..Len(ps) :
                  LET nlenp == ps[i].off + HdrSize
                      datap == nlenp + NV_ALIGN4(4 + Len(ps[i].name))
                  IN /\ be32dec(Rd(nvl.data, ps[i].off, 4)) = ps[i].enc
                     /\ be32dec(Rd(nvl.data, ps[i].off + 4, 4)) = ps[i].dec
                     /\ be32dec(Rd(nvl.data, nlenp, 4)) = Len(ps[i].name)
                     /\ be32dec(Rd(nvl.data, datap, 4)) = ps[i].type
                     /\ be32dec(Rd(nvl.data, datap + 4, 4)) = ps[i].nelem

\* the bytes of every pair of a handle, header included, in list order
PairBytes(n) ==
    LET ps == Walk(host, n).ps
    IN [i \in 1..Len(ps) |-> Rd(n.data, ps[i].off, ps[i].enc)]

\* C15 (frame of add): an add that returns 0 keeps every earlier pair whose
\* name or type differs from the added one, byte for byte and in the same
\* order; it removes at most one pair, of the same name and type and only
\* under NV_UNIQUE_NAME; and the new pair is the last one of the list.
C15_AddFrame ==
    (op.name \in Adds /\ rv = OK) =>
        LET old == Walk(host, pre).ps
            new == Walk(host, nvl).ps
            same(i) == old[i].name = op.k /\ old[i].type = op.t
        IN /\ Walk(host, nvl).ok
           /\ Len(new) >= 1
           /\ new[Len(new)].name = op.k
           /\ new[Len(new)].type = op.t
           /\ \/ SubSeq(PairBytes(nvl), 1, Len(new) - 1) = PairBytes(pre)
              \/ \E i \in 1..Len(old) :
                    /\ Unique(pre)
                    /\ same(i)
                    /\ SubSeq(PairBytes(nvl), 1, Len(new) - 1)
                           = Without(PairBytes(pre), i)

\* C16 (end-of-list test): the walkers stop at a pair header only when both
\* encoded_size and decoded_size are zero.  After an import that returned a
\* handle, the header nvlist_size stopped at in the stream, and the header
\* the pair loop of find, remove and next stops at in the handle, have both
\* words zero.
C16_EndOfList ==
    imp.status = "ok" =>
        LET stop == 4 + imp.size - HdrSize
            w == Walk(host, imp.nvl)
        IN /\ be32dec(Rd(imp.stream, stop, 4)) = 0
           /\ be32dec(Rd(imp.stream, stop + 4, 4)) = 0
           /\ w.ok => /\ Val(host, Rd(imp.nvl.data, w.end, 4)) = 0
                      /\ Val(host, Rd(imp.nvl.data, w.end + 4, 4)) = 0

\* C17 (capacity safety): after nvlist_create, an nvlist_import, an add or
\* a remove on an owned handle (nv_asize # 0), no call went outside the buffer,
\* 16 <= nv_size <= nv_asize, the buffer holds nv_asize bytes, and nv_size
\* is 8 + the encoded_size of all pairs + 8, so that the bytes an add wrote,
\* which end at nv_size, lie inside [0, nv_asize).
C17_CapacitySafe ==
    (op.name \in Adds \cup {"create", "import", "remove"} /\ pre.asize # 0) =>
        /\ rv # UB
        /\ NvsSize <= nvl.size
        /\ nvl.size <= nvl.asize
        /\ Len(nvl.data) = nvl.asize
        /\ Walk(host, nvl).ok
        /\ nvl.size = Walk(host, nvl).end + HdrSize

\* C18 (label write guarded by read): in both copies of lzbe_set_pair,
\* zpool_set_bootenv and nvlist_free are called only with the nvlist a
\* successful zpool_get_bootenv returned; when zpool_get_bootenv fails the
\* label is not written and its error is the return value; and once
\* libzfs_init succeeded, at return libzfs_fini was called exactly once and
\* an opened pool handle was closed.
C18_WriteGuardedByRead ==
    lz.pc # "none" =>
        /\ lz.setarg \in {"none", "valid"}
        /\ lz.freearg \in {"none", "valid"}
        /\ lz.got = "failed" =>
              /\ lz.writes = 0
              /\ lz.pc = "done" => lz.rv = lz.getrv
        /\ (lz.pc = "done" /\ lz.hdl # "none") =>
              /\ lz.finis = 1
              /\ lz.hdl = "closed"
              /\ lz.zphdl \in {"none", "closed"}
              /\ lz.closes = IF lz.zphdl = "closed" THEN 1 ELSE 0

====
